---- MODULE Spec2Model ----
(***************************************************************************)
(* Boston Airbnb Finder (src/app.py): the loader, the cleaner, the four    *)
(* query pages and the top-level dispatch of main(), as a state machine.   *)
(*                                                                         *)
(* Representation.                                                         *)
(*  - A DataFrame is a record [cols |-> set of column names,               *)
(*    rows |-> sequence of row records]; row order is the frame's order.   *)
(*  - A cell of a numeric column is a record [k, v]: k = "num" (a number   *)
(*    v), "numstr" (text that parses as the number v, as read_csv leaves   *)
(*    it in an object column), "text" (text that is no number) or "nan"    *)
(*    (missing).                                                           *)
(*  - A cell of a text column is a string; NA is the missing value.        *)
(*  - Prices are whole dollars.  reviews_per_month, rating and min_rating  *)
(*    are in hundredths (450 is 4.50); a mean price is in cents.           *)
(*  - A number is a float64.  The cell [k |-> "num", v |-> n, u |-> j] is  *)
(*    the double j units in the last place away from the double nearest    *)
(*    to the decimal n; a value read from a file or a widget has u = 0.    *)
(***************************************************************************)
EXTENDS Integers, Sequences, FiniteSets, TLC

VARIABLES
    files,            \* the four sources on disk: status and content
    pc,               \* position of the current script run of main()
    page,             \* value of the sidebar selectbox
    listings,         \* the four values main() holds after load_data()
    neighbourhoods,
    reviews,
    restaurants,
    errors,           \* st.error messages of this run, in order
    invoked,          \* the page function main() dispatched to, or "none"
    widgets,          \* the widget values the page read
    filtered_data,    \* the page's result table (or NoFrame)
    price_pivot       \* the price page's pivot table (or NoPivot)

vars == <<files, pc, page, listings, neighbourhoods, reviews, restaurants,
          errors, invoked, widgets, filtered_data, price_pivot>>

-----------------------------------------------------------------------------
(* Bounds of the model.                                                    *)

MaxRows == 2
MaxPad == 10
MaxRestaurants == 2

-----------------------------------------------------------------------------
(* Values.                                                                 *)

None == [cols |-> {"<None>"}, rows |-> <<>>]
NoFrame == [cols |-> {"<no result>"}, rows |-> <<>>]
NoPivot == [keys |-> {"<no pivot>"}, mean |-> <<>>]
NoWidgets ==
    [min_rating |-> 0, selected_neighborhoods |-> {}, neighborhood |-> "<None>",
     price_range |-> <<0, 0>>, location |-> "<None>", cuisine |-> "<None>"]

NA == "NaN"

Float(n, j) == [k |-> "num", v |-> n, u |-> j]
Num(n) == Float(n, 0)
NumStr(n) == [k |-> "numstr", v |-> n, u |-> 0]
Text == [k |-> "text", v |-> 0, u |-> 0]
NaN == [k |-> "nan", v |-> 0, u |-> 0]

IsNum(c) == c.k = "num"
IsNaN(c) == c.k = "nan"

\* pandas comparisons of a numeric column with the number n, itself the
\* double nearest to the decimal n: False on NaN.
Ge(c, n) == IsNum(c) /\ (c.v > n \/ (c.v = n /\ c.u >= 0))
Le(c, n) == IsNum(c) /\ (c.v < n \/ (c.v = n /\ c.u <= 0))

Min(a, b) == IF a <= b THEN a ELSE b
Max(a, b) == IF a >= b THEN a ELSE b

\* The rows of s that satisfy Test, in order (a boolean-mask selection).
Mask(s, Test(_)) == SelectSeq(s, Test)

\* The sequence f as an explicit tuple of its elements.
Rows(f) == f \o <<>>

Range(s) == {s[i] : i \in 1..Len(s)}

RECURSIVE Repeat(_, _)
Repeat(r, n) == IF n = 0 THEN <<>> ELSE <<r>> \o Repeat(r, n - 1)

RECURSIVE SeqsUpTo(_, _)
SeqsUpTo(S, n) ==
    IF n = 0 THEN {<<>>}
    ELSE LET T == SeqsUpTo(S, n - 1)
         IN  T \cup {Append(t, x) : t \in {u \in T : Len(u) = n - 1}, x \in S}

-----------------------------------------------------------------------------
(* The sources.                                                            *)

RawCols == {"name", "price", "availability_365", "neighbourhood",
            "number_of_reviews", "reviews_per_month"}

Row(n, p, a, h, r, m) ==
    [name |-> n, price |-> p, availability_365 |-> a, neighbourhood |-> h,
     number_of_reviews |-> r, reviews_per_month |-> m]

\* Rows a listings.csv can hold, as cells of the file: a number, a text or
\* nothing.
FileRows ==
    { Row("a", Num(50),  Num(10),  "A", Num(3), Num(250)),
      Row("b", Num(200), Num(0),   "B", Num(8), Num(20)),
      Row("c", Num(201), Num(365), "A", Num(0), NaN),
      Row(NA,  Num(100), Num(90),  "B", Num(2), Num(50)),
      Row("e", NaN,      Num(5),   "A", Num(1), Num(10)),
      Row("f", Text,     Text,     "B", Text,   Num(0)),
      Row("g", Num(0),   Num(1),   NA,  Num(2), Num(100)),
      Row("h", Num(350), Text,     "A", Num(4), Num(100)),
      Row("t", NaN,      Num(7),   "B", Num(1), Text) }

PadRow == Row("p", Num(100), Num(30), "A", Num(6), Num(36))

\* A listings.csv: some equal rows, then up to MaxRows rows of any kind.
ListingsFiles ==
    {Repeat(PadRow, k) \o t : k \in 0..MaxPad, t \in SeqsUpTo(FileRows, MaxRows)}

DefaultListingsFile ==
    << Row("a", Num(50),  Num(10),  "A", Num(3), Num(250)),
       Row("b", Num(200), Num(0),   "B", Num(8), Num(20)) >>

NeighbourhoodsFile ==
    [cols |-> {"neighbourhood"},
     rows |-> << [neighbourhood |-> "A"], [neighbourhood |-> "B"],
                 [neighbourhood |-> "C"] >>]

ReviewsFile == [cols |-> {"listing_id", "date"}, rows |-> <<>>]

RestaurantCols == {"Name", "Location", "Cuisine"}

RestaurantRows ==
    [Name : {"r"}, Location : {"North End", "Back Bay", NA},
     Cuisine : {"Italian", "Thai"}]

RestaurantFiles ==
    {[cols |-> RestaurantCols, rows |-> t] :
        t \in SeqsUpTo(RestaurantRows, MaxRestaurants)}

DefaultRestaurantsFile ==
    [cols |-> RestaurantCols,
     rows |-> << [Name |-> "r", Location |-> "North End", Cuisine |-> "Italian"],
                 [Name |-> "r", Location |-> "Back Bay", Cuisine |-> "Thai"] >>]

\* What reading a source can do: succeed, or raise FileNotFoundError,
\* pandas.errors.ParserError, or some other exception (EmptyDataError,
\* UnicodeDecodeError, BadZipFile, ...).
ReadOutcomes == {"ok", "FileNotFoundError", "ParserError", "OtherError"}

Sources == <<"listings", "neighbourhoods", "reviews", "restaurants">>

-----------------------------------------------------------------------------
(* float64 arithmetic on the rationals the program meets.  A double has 53 *)
(* significant bits: the double nearest to a/q keeps 52 - Exp2(a, q) bits  *)
(* after the binary point.  The bits themselves are never built; what a    *)
(* rounding does is decided by the remainder of a * 2^s by q.              *)

\* floor(log2(a / q)), for a > 0.
RECURSIVE Exp2(_, _)
Exp2(a, q) ==
    IF a >= 2 * q THEN Exp2(a, 2 * q) + 1
    ELSE IF a < q THEN Exp2(2 * a, q) - 1
    ELSE 0

\* 2^s % q, by repeated squaring.
RECURSIVE Pow2Mod(_, _)
Pow2Mod(s, q) ==
    IF s = 0 THEN 1 % q
    ELSE LET h == Pow2Mod(s \div 2, q)
         IN  (((h * h) % q) * (IF s % 2 = 1 THEN 2 ELSE 1)) % q

\* (a * 2^s) % q.
PowMod(a, s, q) == ((a % q) * Pow2Mod(s, q)) % q

\* The last bit of floor(a * 2^s / q).
LastBit(a, q, s) ==
    IF s = 0 THEN (a \div q) % 2 ELSE (2 * PowMod(a, s - 1, q)) \div q

IsPowerOfTwo(a, q) ==
    LET e == Exp2(a, q) IN IF e >= 0 THEN a = q * 2^e ELSE a * 2^(-e) = q

\* Round to nearest, ties to even: the index of the grid point nearest to
\* w on the grid {j * step}, where the point of index 0 has last bit bit0.
Nearest(w, step, bit0) ==
    LET j == w \div step
        rem == w - j * step
    IN  IF 2 * rem < step THEN j
        ELSE IF 2 * rem > step THEN j + 1
        ELSE IF (bit0 + j) % 2 = 0 THEN j ELSE j + 1

\* x = a / q as a double, then x * c as a double, for integers a >= 0,
\* q >= 1, c >= 1.  With V = c * a / q and g the double at or just below
\* V: the product is the double g + y ulps, the double nearest to V is
\* g + z ulps, and exact says whether V is a double itself.
FloatMul(a, q, c) ==
    IF a = 0 THEN [y |-> 0, z |-> 0, exact |-> TRUE]
    ELSE LET s1 == 52 - Exp2(a, q)
             s2 == 52 - Exp2(c * a, q)
             G == 2^(s1 - s2)
             step == q * G
             r1 == PowMod(a, s1, q)
             up == 2 * r1 > q \/ (2 * r1 = q /\ LastBit(a, q, s1) = 1)
             d1 == IF up THEN q - r1 ELSE -r1
             r2 == PowMod(c * a, s2, q)
             bit0 == LastBit(c * a, q, s2)
             w == r2 * G + c * d1
         IN  [y |-> IF w < 0 /\ r2 = 0 /\ IsPowerOfTwo(c * a, q)
                    THEN (IF Nearest(2 * w, step, 0) < 0 THEN -1 ELSE 0)
                    ELSE Nearest(w, step, bit0),
              z |-> Nearest(r2 * G, step, bit0),
              exact |-> r2 = 0]

\* x * 5 on a float64 cell holding x hundredths.
Times5(x) ==
    LET m == FloatMul(x, 100, 5) IN Float(5 * x, m.y - m.z)

-----------------------------------------------------------------------------
(* pandas operations used by the loader and the cleaner.                   *)

NumericCols == {"price", "availability_365", "number_of_reviews",
                "reviews_per_month", "rating"}

IsMissing(col, c) == IF col \in NumericCols THEN IsNaN(c) ELSE c = NA

\* pd.read_csv: a column that holds a text that is no number is read as an
\* object column, whose numbers stay the strings of the file.
ReadCell(column, c) ==
    IF c.k = "num" /\ \E i \in 1..Len(column) : column[i].k = "text"
    THEN NumStr(c.v) ELSE c

read_csv(fileRows) ==
    LET Col(col) == Rows([i \in 1..Len(fileRows) |-> fileRows[i][col]])
        price == Col("price")
        availability == Col("availability_365")
        reviews_count == Col("number_of_reviews")
        per_month == Col("reviews_per_month")
        ReadRow(r) ==
            [r EXCEPT !.price = ReadCell(price, r.price),
                      !.availability_365 = ReadCell(availability, r.availability_365),
                      !.number_of_reviews = ReadCell(reviews_count, r.number_of_reviews),
                      !.reviews_per_month = ReadCell(per_month, r.reviews_per_month)]
    IN  [cols |-> RawCols,
         rows |-> Rows([i \in 1..Len(fileRows) |-> ReadRow(fileRows[i])])]

\* DataFrame.dropna(subset=...): drop the rows with a missing value in a
\* column of subset.
dropna(df, subset) ==
    [df EXCEPT !.rows =
        Mask(df.rows, LAMBDA r : \A col \in subset : ~IsMissing(col, r[col]))]

\* pd.to_numeric(errors="coerce") on one cell.
to_numeric(c) ==
    CASE c.k = "num"    -> c
      [] c.k = "numstr" -> Num(c.v)
      [] c.k = "text"   -> NaN
      [] c.k = "nan"    -> NaN

\* df[col] = f(df[col]), cell by cell.
MapColumn(df, col, F(_)) ==
    LET rows == df.rows
    IN  [df EXCEPT !.rows =
            Rows([i \in 1..Len(rows) |-> [rows[i] EXCEPT ![col] = F(rows[i][col])]])]

\* Series.fillna(value).
fillna(c, value) == IF IsNaN(c) THEN Num(value) ELSE c

\* df[col] = values, for a column the frame does not have yet.
AddColumn(df, col, F(_)) ==
    LET rows == df.rows
    IN  [cols |-> df.cols \cup {col},
         rows |-> Rows([i \in 1..Len(rows) |-> (col :> F(rows[i])) @@ rows[i]])]

-----------------------------------------------------------------------------
(* load_data: the cleaner.                                                 *)

RatingCap == 5

Hundredths(n) == n * 100

\* Mutant: the rating without its cap.
RatingOf_uncapped(x) == Times5(x)

\* lambda x: x * 5 if x * 5 <= 5 else 5, on a number of x hundredths.
RatingOf(x) ==
    LET y == Times5(x)
    IN  IF Le(y, Hundredths(RatingCap)) THEN y ELSE Num(Hundredths(RatingCap))

DropSubset == {"price", "availability_365", "neighbourhood", "number_of_reviews"}

\* Lines 48-56: the frame before the rating column is added.
Coerce(raw) ==
    LET d  == dropna(raw, DropSubset)
        p  == MapColumn(d, "price", to_numeric)
        a  == MapColumn(p, "availability_365", to_numeric)
        n  == MapColumn(a, "number_of_reviews", to_numeric)
    IN  MapColumn(n, "reviews_per_month", LAMBDA c : fillna(c, 0))

\* Line 59 on a string: x * 5 repeats the string, and comparing it with 5
\* raises TypeError.  reviews_per_month is never passed to pd.to_numeric,
\* so the cells of an object column are still the strings of the file.
RatingRaises(df) ==
    \E i \in 1..Len(df.rows) : ~IsNum(df.rows[i].reviews_per_month)

\* What stands for the frame when line 59 raises: there is no frame.
TypeError == [cols |-> {"<TypeError>"}, rows |-> <<>>]

\* Line 59.
WithRating(df) ==
    IF RatingRaises(df) THEN TypeError
    ELSE AddColumn(df, "rating", LAMBDA r : RatingOf(r.reviews_per_month.v))

\* Lines 47-61: the cleaned frame, or TypeError.
Clean(raw) == WithRating(Coerce(raw))

-----------------------------------------------------------------------------
(* load_data: the loader.                                                  *)

\* The first source, in reading order, whose read raises; 0 when none does.
FirstFailure(f) ==
    IF \A i \in 1..4 : f.status[Sources[i]] = "ok" THEN 0
    ELSE CHOOSE i \in 1..4 :
            /\ f.status[Sources[i]] # "ok"
            /\ \A j \in 1..(i - 1) : f.status[Sources[j]] = "ok"

\* Mutant: on a failure, the tables read before it are returned.
load_data_partial(f) ==
    LET i == FirstFailure(f)
        Got(j, t) == IF i = 0 \/ j < i THEN t ELSE None
        c == Clean(read_csv(f.listings))
    IN  [tables |-> <<Got(1, IF c = TypeError THEN None ELSE c),
                      Got(2, f.neighbourhoods),
                      Got(3, f.reviews), Got(4, f.restaurants)>>,
         errors |-> IF i = 0 THEN <<>> ELSE <<"File not found">>,
         raised |-> FALSE]

\* What load_data() returns: the four tables, the st.error messages, and
\* whether an exception left the function instead (an exception of a read
\* that no except clause names, or the TypeError of line 59).
load_data(f) ==
    LET i == FirstFailure(f)
        c == Clean(read_csv(f.listings))
    IN  CASE i = 0 /\ c # TypeError ->
               [tables |-> <<c, f.neighbourhoods,
                             f.reviews, f.restaurants>>,
                errors |-> <<>>, raised |-> FALSE]
          [] i # 0 /\ f.status[Sources[i]] = "FileNotFoundError" ->
               [tables |-> <<None, None, None, None>>,
                errors |-> <<"File not found">>, raised |-> FALSE]
          [] i # 0 /\ f.status[Sources[i]] = "ParserError" ->
               [tables |-> <<None, None, None, None>>,
                errors |-> <<"Error parsing CSV or Excel files">>, raised |-> FALSE]
          [] OTHER ->
               [tables |-> <<None, None, None, None>>,
                errors |-> <<>>, raised |-> TRUE]

-----------------------------------------------------------------------------
(* The Query Layer.                                                        *)

PyNone == "<None>"

\* Python truth value of the neighborhood argument.
Truthy(x) == x # PyNone /\ x # ""

\* Series == value on a text column: False on a missing cell or value.
EqText(c, x) == c # NA /\ x # NA /\ c = x

\* Series.unique(), as the set of the values.
Unique(df, col) == {df.rows[i][col] : i \in 1..Len(df.rows)}

\* Mutant: the upper bound of the price range taken as exclusive.
filter_listings_exclusive(data, min_price, max_price, neighborhood) ==
    IF Truthy(neighborhood)
    THEN [data EXCEPT !.rows =
            Mask(data.rows, LAMBDA r : /\ Ge(r.price, min_price)
                                       /\ Le(r.price, max_price - 1)
                                       /\ EqText(r.neighbourhood, neighborhood))]
    ELSE [data EXCEPT !.rows =
            Mask(data.rows, LAMBDA r : /\ Ge(r.price, min_price)
                                       /\ Le(r.price, max_price - 1))]

filter_listings(data, min_price, max_price, neighborhood) ==
    IF Truthy(neighborhood)
    THEN [data EXCEPT !.rows =
            Mask(data.rows, LAMBDA r : /\ Ge(r.price, min_price)
                                       /\ Le(r.price, max_price)
                                       /\ EqText(r.neighbourhood, neighborhood))]
    ELSE [data EXCEPT !.rows =
            Mask(data.rows, LAMBDA r : /\ Ge(r.price, min_price)
                                       /\ Le(r.price, max_price))]

\* Lines 157-167 of price_distribution_page.
InlinePriceFilter(data, neighborhood, lo, hi) ==
    IF neighborhood = "All"
    THEN [data EXCEPT !.rows =
            Mask(data.rows, LAMBDA r : Ge(r.price, lo) /\ Le(r.price, hi))]
    ELSE [data EXCEPT !.rows =
            Mask(data.rows, LAMBDA r : /\ EqText(r.neighbourhood, neighborhood)
                                       /\ Ge(r.price, lo)
                                       /\ Le(r.price, hi))]

\* Mutant: the mean cut to 2 decimal places instead of rounded.
RoundDown(num, den) == (100 * num) \div den

\* The double num / den rounded by numpy.round(x, 2), in cents: x * 100 as
\* a double, then rint (ties to even).  When 100 * num / den is not half
\* way between two integers the double x * 100 is on the same side of the
\* half as the exact value; when it is, the double decides.
round(num, den) ==
    LET n == 200 * num
        k == ((n \div den) - 1) \div 2
        m == FloatMul(num, den, 100)
    IN  IF n % den # 0 \/ (n \div den) % 2 = 0
        THEN (n + den) \div (2 * den)
        ELSE IF m.y < 0 THEN k
        ELSE IF m.y > 0 THEN k + 1
        ELSE IF k % 2 = 0 THEN k ELSE k + 1

RECURSIVE SumPrice(_)
SumPrice(rows) ==
    IF rows = <<>> THEN 0
    ELSE (IF IsNum(Head(rows).price) THEN Head(rows).price.v ELSE 0)
         + SumPrice(Tail(rows))

\* Lines 178-183: pd.pivot_table(values="price", index="neighbourhood",
\* aggfunc="mean").round(2).
pivot_table(data) ==
    LET rows == data.rows
        priced == Mask(rows, LAMBDA r : IsNum(r.price) /\ r.neighbourhood # NA)
        keys == {priced[i].neighbourhood : i \in 1..Len(priced)}
        Group(h) == Mask(priced, LAMBDA r : r.neighbourhood = h)
    IN  [keys |-> keys,
         mean |-> [h \in keys |->
                     LET g == Group(h) IN round(SumPrice(g), Len(g))]]

RemoveAt(s, i) == SubSeq(s, 1, i - 1) \o SubSeq(s, i + 1, Len(s))

\* DataFrame.sort_values(by="price"): the default sort is not stable, so
\* rows of equal price come out in any order.  The set of the orders.
RECURSIVE sort_values(_)
sort_values(rows) ==
    IF rows = <<>> THEN {<<>>}
    ELSE LET nums == {i \in 1..Len(rows) : IsNum(rows[i].price)}
             least == IF nums = {}
                      THEN {CHOOSE i \in 1..Len(rows) : \A j \in 1..Len(rows) : i <= j}
                      ELSE {i \in nums :
                              \A j \in nums : rows[i].price.v <= rows[j].price.v}
             firsts == {i \in least : \A j \in least : rows[j] = rows[i] => i <= j}
         IN  UNION {{<<rows[i]>> \o t : t \in sort_values(RemoveAt(rows, i))} :
                        i \in firsts}

TopN == 10
AffordableMin == 0
AffordableMax == 200

\* DataFrame.head(n).
head(rows, n) == SubSeq(rows, 1, Min(n, Len(rows)))

\* Mutant: the first rows of the filtered table, not sorted by price.
AffordableFilter_unsorted(data, selected_neighborhood) ==
    LET f == filter_listings(data, AffordableMin, AffordableMax,
                 IF selected_neighborhood = "All" THEN PyNone
                 ELSE selected_neighborhood)
    IN  {[f EXCEPT !.rows = head(f.rows, TopN)]}

\* Lines 216-218: the tables most_affordable_airbnbs_page can end with.
AffordableFilter(data, selected_neighborhood) ==
    LET f == filter_listings(data, AffordableMin, AffordableMax,
                 IF selected_neighborhood = "All" THEN PyNone
                 ELSE selected_neighborhood)
    IN  {[f EXCEPT !.rows = head(s, TopN)] : s \in sort_values(f.rows)}

\* Series * 5: a number times 5, a string repeated 5 times, NaN for NaN.
Series5(c) ==
    CASE c.k = "num" -> Times5(c.v)
      [] c.k = "nan" -> NaN
      [] OTHER       -> Text

\* Lines 94-105 of top_rated_airbnbs_page: the frame passed in as the call
\* leaves it, the result, and whether the call raised: the comparison of
\* line 98 on a string, or len(name) of line 101 on a missing name.
RatingFilter(data, min_rating, selected_neighborhoods) ==
    LET d == IF "rating" \notin data.cols
             THEN AddColumn(data, "rating", LAMBDA r : Series5(r.reviews_per_month))
             ELSE data
        f == Mask(d.rows, LAMBDA r : Ge(r.rating, min_rating))
        raised == \/ \E i \in 1..Len(d.rows) : d.rows[i].rating.k \in {"text", "numstr"}
                  \/ \E i \in 1..Len(f) : f[i].name = NA
        g == IF selected_neighborhoods # {}
             THEN Mask(f, LAMBDA r : r.neighbourhood \in selected_neighborhoods)
             ELSE f
    IN  [listings |-> d,
         raised |-> raised,
         filtered_data |-> IF raised THEN NoFrame ELSE [d EXCEPT !.rows = g]]

\* Mutant: the cuisine filter applied to the whole table, so that it
\* replaces the location filter.
RestaurantFilter_cuisine_only(data, location, cuisine) ==
    LET byLocation ==
            IF location # "All"
            THEN [data EXCEPT !.rows =
                    Mask(data.rows, LAMBDA r : EqText(r.Location, location))]
            ELSE data
    IN  IF cuisine # "All"
        THEN [data EXCEPT !.rows =
                Mask(data.rows, LAMBDA r : EqText(r.Cuisine, cuisine))]
        ELSE byLocation

\* Lines 268-274 of restaurant_page.
RestaurantFilter(data, location, cuisine) ==
    LET copy == data
        byLocation ==
            IF location # "All"
            THEN [copy EXCEPT !.rows =
                    Mask(copy.rows, LAMBDA r : EqText(r.Location, location))]
            ELSE copy
    IN  IF cuisine # "All"
        THEN [byLocation EXCEPT !.rows =
                Mask(byLocation.rows, LAMBDA r : EqText(r.Cuisine, cuisine))]
        ELSE byLocation

-----------------------------------------------------------------------------
(* Widgets: the values a page can read from them.                          *)

\* st.slider("Minimum Rating (1-5)", 1.0, 5.0, step=0.1), in hundredths.
RatingSlider == {Hundredths(1) + 10 * i : i \in 0..40}

\* The slider positions the page actions try; 4.5 is the default.
RatingProbes == {Hundredths(1), 180, 450}

PriceProbes == {0, 50, 100, 200, 201, 300, 350}

\* value=(50, 300) of the price slider.
DefaultPriceRange == <<50, 300>>

Prices(data) ==
    LET rows == data.rows
    IN  {rows[i].price.v : i \in {j \in 1..Len(rows) : IsNum(rows[j].price)}}

HasPrice(data) == Prices(data) # {}

\* int(listings['price'].min()) and int(listings['price'].max()).
PriceMin(data) ==
    LET ps == Prices(data) IN CHOOSE p \in ps : \A q \in ps : p <= q

PriceMax(data) ==
    LET ps == Prices(data) IN CHOOSE p \in ps : \A q \in ps : p >= q

\* The ranges the price slider can return.  st.slider widens min_value and
\* max_value to hold the default value, which it returns until the slider
\* is moved.
PriceRanges(data) ==
    LET min_value == Min(DefaultPriceRange[1], PriceMin(data))
        max_value == Max(DefaultPriceRange[2], PriceMax(data))
    IN  {DefaultPriceRange}
        \cup {<<lo, hi>> \in PriceProbes \X PriceProbes :
                 min_value <= lo /\ lo <= hi /\ hi <= max_value}

-----------------------------------------------------------------------------
(* main(): one script run per interaction.                                 *)

Pages == {"Home", "Top-Rated Airbnbs", "Price Distribution",
          "Most Affordable Airbnbs", "Boston Restaurants"}

FileSystem(status, l, r) ==
    [status |-> status, listings |-> l, neighbourhoods |-> NeighbourhoodsFile,
     reviews |-> ReviewsFile, restaurants |-> r]

SourceNames == {Sources[i] : i \in 1..4}

AllOk == [s \in SourceNames |-> "ok"]

FileSystems ==
    {FileSystem(AllOk, l, DefaultRestaurantsFile) : l \in ListingsFiles}
    \cup {FileSystem(AllOk, DefaultListingsFile, r) : r \in RestaurantFiles}
    \cup {FileSystem(st, DefaultListingsFile, DefaultRestaurantsFile) :
            st \in [SourceNames -> ReadOutcomes]}

Init ==
    /\ files \in FileSystems
    /\ pc = "idle"
    /\ page = "Home"
    /\ listings = None /\ neighbourhoods = None
    /\ reviews = None /\ restaurants = None
    /\ errors = <<>>
    /\ invoked = "none"
    /\ widgets = NoWidgets
    /\ filtered_data = NoFrame
    /\ price_pivot = NoPivot

\* Lines 281-295: a script run starts and reads the sidebar.
Run(p) ==
    /\ pc \in {"idle", "done", "raised"}
    /\ pc' = "selected"
    /\ page' = p
    /\ listings' = None /\ neighbourhoods' = None
    /\ reviews' = None /\ restaurants' = None
    /\ errors' = <<>>
    /\ invoked' = "none"
    /\ widgets' = NoWidgets
    /\ filtered_data' = NoFrame
    /\ price_pivot' = NoPivot
    /\ UNCHANGED files

\* Line 297.
LoadData ==
    /\ pc = "selected"
    /\ LET r == load_data(files)
       IN  /\ pc' = IF r.raised THEN "raised" ELSE "loaded"
           /\ listings' = r.tables[1]
           /\ neighbourhoods' = r.tables[2]
           /\ reviews' = r.tables[3]
           /\ restaurants' = r.tables[4]
           /\ errors' = errors \o r.errors
    /\ UNCHANGED <<files, page, invoked, widgets, filtered_data, price_pivot>>

AnyNone ==
    listings = None \/ neighbourhoods = None \/ reviews = None \/ restaurants = None

\* Lines 300-302.
Halt ==
    /\ pc = "loaded"
    /\ AnyNone
    /\ pc' = "done"
    /\ errors' = Append(errors, "Error loading data")
    /\ UNCHANGED <<files, page, listings, neighbourhoods, reviews, restaurants,
                   invoked, widgets, filtered_data, price_pivot>>

\* Mutant: the dispatch without the check of lines 300-302.
Dispatch_unchecked(p) == pc = "loaded" /\ page = p

\* Whether main() reaches the dispatch on page p.
Dispatch(p) == pc = "loaded" /\ ~AnyNone /\ page = p

main_page ==
    /\ invoked' = "main_page"
    /\ pc' = "done"
    /\ UNCHANGED <<files, page, listings, neighbourhoods, reviews, restaurants,
                   errors, widgets, filtered_data, price_pivot>>

top_rated_airbnbs_page(min_rating, selected_neighborhoods) ==
    LET r == RatingFilter(listings, min_rating, selected_neighborhoods)
    IN  /\ invoked' = "top_rated_airbnbs_page"
        /\ widgets' = [NoWidgets EXCEPT !.min_rating = min_rating,
                          !.selected_neighborhoods = selected_neighborhoods]
        /\ listings' = r.listings
        /\ filtered_data' = r.filtered_data
        /\ pc' = IF r.raised THEN "raised" ELSE "done"
        /\ UNCHANGED <<files, page, neighbourhoods, reviews, restaurants,
                       errors, price_pivot>>

price_distribution_page ==
    /\ invoked' = "price_distribution_page"
    /\ \/ /\ ~HasPrice(listings)
          /\ pc' = "raised"
          /\ UNCHANGED <<widgets, filtered_data, price_pivot>>
       \/ /\ HasPrice(listings)
          /\ \E neighborhood \in {"All"} \cup Unique(neighbourhoods, "neighbourhood"),
                price_range \in PriceRanges(listings) :
                LET f == InlinePriceFilter(listings, neighborhood,
                                           price_range[1], price_range[2])
                IN  /\ widgets' = [NoWidgets EXCEPT !.neighborhood = neighborhood,
                                      !.price_range = price_range]
                    /\ filtered_data' = f
                    /\ price_pivot' = pivot_table(f)
          /\ pc' = "done"
    /\ UNCHANGED <<files, page, listings, neighbourhoods, reviews, restaurants,
                   errors>>

most_affordable_airbnbs_page ==
    /\ invoked' = "most_affordable_airbnbs_page"
    /\ \E selected_neighborhood \in {"All"} \cup Unique(listings, "neighbourhood") :
          /\ widgets' = [NoWidgets EXCEPT !.neighborhood = selected_neighborhood]
          /\ \E affordable_data \in AffordableFilter(listings, selected_neighborhood) :
                \* Line 221 selects the rating column: KeyError without it.
                IF "rating" \in affordable_data.cols
                THEN filtered_data' = affordable_data /\ pc' = "done"
                ELSE filtered_data' = NoFrame /\ pc' = "raised"
    /\ UNCHANGED <<files, page, listings, neighbourhoods, reviews, restaurants,
                   errors, price_pivot>>

restaurant_page ==
    /\ invoked' = "restaurant_page"
    /\ \E location \in {"All"} \cup Unique(restaurants, "Location"),
          cuisine \in {"All"} \cup Unique(restaurants, "Cuisine") :
          /\ widgets' = [NoWidgets EXCEPT !.location = location,
                            !.cuisine = cuisine]
          /\ filtered_data' = RestaurantFilter(restaurants, location, cuisine)
    /\ pc' = "done"
    /\ UNCHANGED <<files, page, listings, neighbourhoods, reviews, restaurants,
                   errors, price_pivot>>

\* Lines 306-315.
Home == Dispatch("Home") /\ main_page

TopRated ==
    /\ Dispatch("Top-Rated Airbnbs")
    /\ \E m \in RatingProbes, s \in SUBSET Unique(neighbourhoods, "neighbourhood") :
          top_rated_airbnbs_page(m, s)

PriceDistribution == Dispatch("Price Distribution") /\ price_distribution_page

MostAffordable == Dispatch("Most Affordable Airbnbs") /\ most_affordable_airbnbs_page

Restaurants == Dispatch("Boston Restaurants") /\ restaurant_page

Next ==
    \/ \E p \in Pages : Run(p)
    \/ LoadData
    \/ Halt
    \/ Home
    \/ TopRated
    \/ PriceDistribution
    \/ MostAffordable
    \/ Restaurants

Spec == Init /\ [][Next]_vars

-----------------------------------------------------------------------------
(* The page functions called directly, one after the other, on a listings  *)
(* frame with or without the rating column and on a restaurants frame.     *)

CallFrames ==
    UNION {{Clean(read_csv(l)), Coerce(read_csv(l))} \ {TypeError} :
              l \in SeqsUpTo(FileRows, MaxRows)}

InitPages ==
    /\ files = FileSystem(AllOk, DefaultListingsFile, DefaultRestaurantsFile)
    /\ pc = "call"
    /\ page = "Home"
    /\ \/ listings \in CallFrames /\ restaurants = DefaultRestaurantsFile
       \/ listings = Clean(read_csv(DefaultListingsFile))
          /\ restaurants \in RestaurantFiles
    /\ neighbourhoods = NeighbourhoodsFile
    /\ reviews = ReviewsFile
    /\ errors = <<>>
    /\ invoked = "none"
    /\ widgets = NoWidgets
    /\ filtered_data = NoFrame
    /\ price_pivot = NoPivot

Callable == pc \in {"call", "done", "raised"}

CallTopRated ==
    /\ Callable
    /\ \E m \in RatingProbes, s \in SUBSET Unique(neighbourhoods, "neighbourhood") :
          top_rated_airbnbs_page(m, s)

CallPriceDistribution == Callable /\ price_distribution_page

CallMostAffordable == Callable /\ most_affordable_airbnbs_page

CallRestaurants == Callable /\ restaurant_page

NextPages ==
    \/ CallTopRated
    \/ CallPriceDistribution
    \/ CallMostAffordable
    \/ CallRestaurants

SpecPages == InitPages /\ [][NextPages]_vars

-----------------------------------------------------------------------------
(* Properties.                                                             *)

\* The rows of a frame at the positions K, in the frame's order.
RECURSIVE RowsUpTo(_, _, _)
RowsUpTo(rows, K, n) ==
    IF n = 0 THEN <<>>
    ELSE LET before == RowsUpTo(rows, K, n - 1)
         IN  IF n \in K THEN Append(before, rows[n]) ELSE before

RowsAt(rows, K) == RowsUpTo(rows, K, Len(rows))

\* How many times the row x occurs in rows.
Count(rows, x) == Cardinality({i \in 1..Len(rows) : rows[i] = x})

Loaded == pc \in {"loaded", "done", "raised"} /\ ~AnyNone

Rendered(f) == pc = "done" /\ invoked = f

InPrice(r, lo, hi) == r.price.k = "num" /\ lo <= r.price.v /\ r.price.v <= hi

\* C1: PriceFilter with no neighborhood (filter_listings, and the inline
\* filter of the price page with 'All') returns exactly the rows with
\* lo <= price <= hi, both ends included, in the table's order.
PriceFilterExact ==
    /\ pc = "loaded" /\ ~AnyNone =>
          \A lo \in PriceProbes, hi \in PriceProbes :
             LET want == RowsAt(listings.rows,
                            {i \in 1..Len(listings.rows) :
                                InPrice(listings.rows[i], lo, hi)})
             IN  /\ filter_listings(listings, lo, hi, PyNone).rows = want
                 /\ InlinePriceFilter(listings, "All", lo, hi).rows = want
    /\ Rendered("price_distribution_page") /\ widgets.neighborhood = "All" =>
          filtered_data.rows =
             RowsAt(listings.rows,
                 {i \in 1..Len(listings.rows) :
                     InPrice(listings.rows[i], widgets.price_range[1],
                             widgets.price_range[2])})

PriceFilterWitness ==
    /\ Rendered("price_distribution_page")
    /\ widgets.neighborhood = "All"
    /\ widgets.price_range[1] < widgets.price_range[2]
    /\ \E i \in 1..Len(filtered_data.rows) :
          filtered_data.rows[i].price = Num(widgets.price_range[1])
    /\ \E i \in 1..Len(filtered_data.rows) :
          filtered_data.rows[i].price = Num(widgets.price_range[2])
    /\ Len(filtered_data.rows) < Len(listings.rows)

\* The rows of the listings that match the affordable page's selection.
AffordableMatches ==
    Mask(listings.rows,
         LAMBDA r : /\ InPrice(r, AffordableMin, AffordableMax)
                    /\ (widgets.neighborhood = "All"
                          \/ r.neighbourhood = widgets.neighborhood))

\* C2: AffordableFilter returns at most 10 rows, each a matching row with
\* 0 <= price <= 200, in non-decreasing price order, and no matching row
\* left out is cheaper than a row returned.
AffordableTop10 ==
    Rendered("most_affordable_airbnbs_page") =>
        LET R == filtered_data.rows
            M == AffordableMatches
        IN  /\ Len(R) <= TopN
            /\ Len(R) = Min(TopN, Len(M))
            /\ \A i \in 1..Len(R) : InPrice(R[i], 0, 200)
            /\ \A i \in 1..Len(R) : Count(R, R[i]) <= Count(M, R[i])
            /\ \A i \in 1..Len(R), j \in 1..Len(R) :
                  i <= j => R[i].price.v <= R[j].price.v
            /\ \A i \in 1..Len(M) :
                  Count(M, M[i]) > Count(R, M[i]) =>
                     \A j \in 1..Len(R) : R[j].price.v <= M[i].price.v

AffordableWitness ==
    /\ Rendered("most_affordable_airbnbs_page")
    /\ Len(filtered_data.rows) = TopN
    /\ Len(AffordableMatches) > TopN
    /\ filtered_data.rows[1].price.v < listings.rows[1].price.v
    /\ \E i \in 1..Len(listings.rows) :
          /\ InPrice(listings.rows[i], 200, 200)
          /\ Count(filtered_data.rows, listings.rows[i]) = 0

\* The rows of the listings file that the cleaner keeps, as read.
KeptFileRows ==
    LET raw == read_csv(files.listings).rows
    IN  RowsAt(raw, {i \in 1..Len(raw) :
                        /\ raw[i].price.k # "nan"
                        /\ raw[i].availability_365.k # "nan"
                        /\ raw[i].number_of_reviews.k # "nan"
                        /\ raw[i].neighbourhood # NA})

\* C3: in the cleaned table rating = min(reviews_per_month * 5, 5), so
\* 0 <= rating <= 5, and rating = 0 iff reviews_per_month = 0; an absent
\* reviews_per_month counts as 0.  The product is the float64 one: the
\* double nearest to the decimal 5x or a neighbour of it, and 0 and 5 are
\* exact.
RatingInvariant ==
    pc = "loaded" /\ ~AnyNone =>
        LET kept == KeptFileRows
            rows == listings.rows
        IN  /\ Len(rows) = Len(kept)
            /\ \A i \in 1..Len(rows) :
                  LET r == rows[i]
                      m == kept[i].reviews_per_month
                      x == IF m.k = "nan" THEN 0 ELSE m.v
                  IN  /\ r.reviews_per_month = Num(x)
                      /\ r.rating.k = "num"
                      /\ r.rating.v = Min(x * 5, 500)
                      /\ r.rating.u \in {-1, 0, 1}
                      /\ r.rating.v \in {0, 500} => r.rating.u = 0
                      /\ 0 <= r.rating.v /\ r.rating.v <= 500
                      /\ (r.rating.v = 0 <=> x = 0)

RatingWitness ==
    /\ pc = "loaded" /\ ~AnyNone
    /\ \E i \in 1..Len(listings.rows) :
          /\ listings.rows[i].reviews_per_month.v > 100
          /\ listings.rows[i].rating = Num(500)
    /\ \E i \in 1..Len(listings.rows) :
          /\ KeptFileRows[i].reviews_per_month.k = "nan"
          /\ listings.rows[i].rating = Num(0)
    /\ \E i \in 1..Len(listings.rows) :
          /\ listings.rows[i].rating.v > 0
          /\ listings.rows[i].rating.v < 500
          /\ listings.rows[i].rating.u # 0

SomeSourceFails == \E s \in SourceNames : files.status[s] # "ok"

AllNone ==
    listings = None /\ neighbourhoods = None /\ reviews = None /\ restaurants = None

\* C4: the loader is all-or-nothing: when a source is missing or malformed
\* load_data hands back no table at all and signals the failure; it never
\* hands back some tables and not others.  With every source read it hands
\* back all four, or none when the cleaner raises.
LoaderAllOrNothing ==
    /\ AllNone \/ ~AnyNone
    /\ pc \in {"loaded", "done", "raised"} =>
          /\ SomeSourceFails => AllNone /\ (errors # <<>> \/ pc = "raised")
          /\ ~SomeSourceFails =>
                ~AnyNone \/ (AllNone /\ pc = "raised" /\ invoked = "none")

LoaderWitness ==
    /\ pc = "loaded"
    /\ files.status["listings"] = "ok"
    /\ files.status["neighbourhoods"] = "ok"
    /\ files.status["reviews"] = "FileNotFoundError"
    /\ AllNone
    /\ errors # <<>>

\* What RatingFilter returns for a threshold: the rows, none when it raises.
Returned(min_rating, selected) ==
    LET r == RatingFilter(listings, min_rating, selected)
    IN  IF r.raised THEN {} ELSE Range(r.filtered_data.rows)

\* C5: RatingFilter narrows monotonically: every row returned with
\* min_rating = r is returned with min_rating = r' when r >= r'.
RatingFilterMonotone ==
    pc = "loaded" /\ ~AnyNone /\ page = "Top-Rated Airbnbs" =>
        \A selected \in SUBSET Unique(neighbourhoods, "neighbourhood") :
           \A r \in RatingSlider, q \in RatingSlider :
              r >= q => Returned(r, selected) \subseteq Returned(q, selected)

\* C6: RestaurantFilter returns exactly the rows whose Location is the
\* selected location (unless 'All') and whose Cuisine is the selected
\* cuisine (unless 'All'), in the table's order; 'All' and 'All' give the
\* whole table.  A missing Location or Cuisine equals no selection.
RestaurantFilterExact ==
    Rendered("restaurant_page") =>
        /\ filtered_data.cols = restaurants.cols
        /\ filtered_data.rows =
              RowsAt(restaurants.rows,
                  {i \in 1..Len(restaurants.rows) :
                      /\ \/ widgets.location = "All"
                         \/ /\ widgets.location # NA
                            /\ restaurants.rows[i].Location = widgets.location
                      /\ \/ widgets.cuisine = "All"
                         \/ /\ widgets.cuisine # NA
                            /\ restaurants.rows[i].Cuisine = widgets.cuisine})
        /\ widgets.location = "All" /\ widgets.cuisine = "All" =>
              filtered_data = restaurants

RestaurantWitness ==
    /\ Rendered("restaurant_page")
    /\ widgets.location \notin {"All", NA}
    /\ widgets.cuisine # "All"
    /\ Len(filtered_data.rows) = 1
    /\ \E i \in 1..Len(restaurants.rows) :
          /\ restaurants.rows[i].Location = widgets.location
          /\ restaurants.rows[i].Cuisine # widgets.cuisine

\* The priced rows of the price page's filtered table in neighbourhood h.
PivotGroup(h) ==
    {i \in 1..Len(filtered_data.rows) : filtered_data.rows[i].neighbourhood = h}

RECURSIVE SumUpTo(_, _, _)
SumUpTo(rows, h, n) ==
    IF n = 0 THEN 0
    ELSE SumUpTo(rows, h, n - 1)
         + (IF rows[n].neighbourhood = h THEN rows[n].price.v ELSE 0)

PivotSum(h) == SumUpTo(filtered_data.rows, h, Len(filtered_data.rows))

\* C7 as claimed: the pivot's keys are the neighbourhoods with a row in the
\* filtered table, and each value is exactly sum / count.
PivotExactMean ==
    Rendered("price_distribution_page") =>
        /\ price_pivot.keys =
              {filtered_data.rows[i].neighbourhood : i \in 1..Len(filtered_data.rows)}
        /\ \A h \in price_pivot.keys :
              price_pivot.mean[h] * Cardinality(PivotGroup(h)) = 100 * PivotSum(h)

\* C7, amended: the pivot's keys are the neighbourhoods with a row in the
\* filtered table, each value is sum / count rounded to 2 decimal places
\* (within half a cent of it), and a neighbourhood with one row maps to
\* that row's price.
PivotRoundedMean ==
    Rendered("price_distribution_page") =>
        /\ price_pivot.keys =
              {filtered_data.rows[i].neighbourhood : i \in 1..Len(filtered_data.rows)}
        /\ \A h \in price_pivot.keys :
              LET n == Cardinality(PivotGroup(h))
                  d == price_pivot.mean[h] * n - 100 * PivotSum(h)
              IN  /\ n >= 1
                  /\ 2 * d <= n /\ -2 * d <= n
                  /\ n = 1 => price_pivot.mean[h] = 100 * PivotSum(h)

PivotWitness ==
    /\ Rendered("price_distribution_page")
    /\ \E h \in price_pivot.keys :
          price_pivot.mean[h] * Cardinality(PivotGroup(h)) # 100 * PivotSum(h)
    /\ \E i \in 1..Len(listings.rows) :
          listings.rows[i].neighbourhood \notin price_pivot.keys

\* C8: every row of the cleaned table has a numeric price,
\* availability_365 and number_of_reviews.
CleanedHasNoMissing ==
    Loaded =>
        \A i \in 1..Len(listings.rows) :
           /\ listings.rows[i].price.k = "num"
           /\ listings.rows[i].availability_365.k = "num"
           /\ listings.rows[i].number_of_reviews.k = "num"

\* C9: no page call changes the listings or the restaurants frame it is
\* given.
PagesDoNotMutate ==
    [][listings' = listings /\ restaurants' = restaurants]_vars

\* C10: a loader failure halts the run before any page: a page function is
\* invoked only with all four tables loaded, and a run whose load failed
\* ends with no page invoked, whichever page was selected.
HaltOnFailure ==
    /\ invoked # "none" => ~SomeSourceFails /\ ~AnyNone /\ errors = <<>>
    /\ pc \in {"done", "raised"} /\ SomeSourceFails =>
          /\ invoked = "none"
          /\ AllNone
          /\ pc = "done" => errors # <<>>
    /\ pc \in {"done", "raised"} /\ AnyNone => invoked = "none"

HaltWitness ==
    /\ pc = "done"
    /\ page = "Home"
    /\ SomeSourceFails
    /\ invoked = "none"
    /\ errors # <<>>

====
